---- MODULE Spec2Model ----
(***************************************************************************)
(* A model of the data layer of the epidemic dashboard                     *)
(* (src/src/components/layout/Header.tsx): the memoized fetch of the       *)
(* unified document and the chart-data transformers that reshape it.       *)
(*                                                                         *)
(* Five specifications share the module:                                   *)
(*   FetchSpec        the asynchronous fetchUnifiedData and its cache cell;*)
(*   Spec             the synchronous transformers applied to a fetched    *)
(*                    document;                                            *)
(*   LegacySpec       the legacy row aggregations applied to parsed rows;  *)
(*   LegacyFetchSpec  fetchJakartaData and fetchCSVData next to            *)
(*                    fetchUnifiedData;                                    *)
(*   UiSpec           the components that use the data layer: the page     *)
(*                    views (src/src/pages) loading the document on mount, *)
(*                    and the theme switch of Header and App.              *)
(***************************************************************************)
EXTENDS Integers, Sequences, FiniteSets, TLC

VARIABLES
    cachedUnifiedData,  \* Header.tsx:254  the module-level cache cell
    calls,              \* the fetchUnifiedData invocations of the session, in start order
    unifiedData,        \* the document handed to the transformers
    original,           \* history: the document as it was fetched
    lastCall,           \* the transformer applied last and its arguments
    result,             \* what that transformer returned
    legacyData,         \* the parsed legacy rows handed to the legacy aggregations
    legacyCalls,        \* the fetchJakartaData / fetchCSVData invocations, in start order
    theme,              \* Header's isDark, the root element's class, localStorage 'theme'
    view                \* the page view that is mounted: its data and loading state

vars == <<cachedUnifiedData, calls, unifiedData, original, lastCall, result,
          legacyData, legacyCalls, theme, view>>

fetchVars == <<cachedUnifiedData, calls>>
transformVars == <<unifiedData, original, lastCall, result>>
legacyVars == <<legacyData, legacyCalls>>
uiVars == <<theme, view>>

(***************************************************************************)
(* Bounds of the model.                                                    *)
(***************************************************************************)
MaxCalls == 3       \* fetch invocations in one session

(***************************************************************************)
(* JavaScript values that cross the fetch boundary.  A parsed body is a    *)
(* fresh object, so its identity (ref) is the call whose response.json()   *)
(* produced it; null has no identity.                                      *)
(***************************************************************************)
Null == [kind |-> "null", ref |-> 0]

\* What response.json() does with a body: "invalid" does not parse; "null" is
\* a falsy JSON value; "other" is a JSON object that is not a unified
\* document; "document" is a unified document.
BodyKinds == {"invalid", "null", "other", "document"}

\* fetch() rejects (network failure), or resolves with a response whose
\* status is a success (ok) or not (httpError, e.g. 404).
NetOutcomes == {"networkError", "ok", "httpError"}

\* response.json() on a body that parses (Header.tsx:260).
ParseJson(body, c) ==
    IF body = "null" THEN Null ELSE [kind |-> body, ref |-> c]

\* JavaScript truthiness of a parsed value (Header.tsx:257).
Truthy(v) == v.kind # "null"

\* `if (cachedUnifiedData) return cachedUnifiedData;`  (Header.tsx:257)
\* (CacheHitNever: the function without its cache check.)
CacheHitNever == FALSE
\* (CacheHitOrFailedBefore: a cache check that also answers, without a
\* request, once an earlier call has been rejected.)
CacheHitOrFailedBefore ==
    \/ Truthy(cachedUnifiedData)
    \/ \E c \in 1..Len(calls) : calls[c].pc = "rejected"
CacheHit == Truthy(cachedUnifiedData)

\* `cachedUnifiedData = await response.json()` (Header.tsx:260): the cell
\* takes the parsed value, whatever it holds.
\* (AssignedIfEmpty: `cachedUnifiedData ??= ...`, which keeps a value the
\* cell already holds.)
AssignedIfEmpty(parsed) == IF Truthy(cachedUnifiedData) THEN cachedUnifiedData ELSE parsed
Assigned(parsed) == parsed

Started == 1..Len(calls)
Pending(c) == calls[c].pc \in {"awaitFetch", "awaitJson"}
Settled(c) == calls[c].pc \in {"resolved", "rejected"}

\* The position of the next settlement in the order in which the calls of
\* the session settle.
NextSettlement == Cardinality({c \in Started : Settled(c)}) + 1

NewCall ==
    [pc |-> "awaitFetch", issued |-> TRUE, net |-> "none", body |-> "none",
     value |-> Null, failedAt |-> "none", wrote |-> FALSE, settledAt |-> 0,
     doneBefore |-> {c \in Started : Settled(c)},
     pendingAtStart |-> {c \in Started : Pending(c)}]

(***************************************************************************)
(* fetchUnifiedData, Header.tsx:256-262, up to its first await: either the *)
(* cached value is returned, or the asset request is issued.               *)
(***************************************************************************)
StartFetchUnifiedData ==
    /\ Len(calls) + Len(legacyCalls) < MaxCalls
    /\ calls' = Append(calls,
          IF CacheHit
            THEN [NewCall EXCEPT !.pc = "resolved", !.issued = FALSE,
                                 !.value = cachedUnifiedData,
                                 !.settledAt = NextSettlement]
            ELSE NewCall)
    /\ UNCHANGED cachedUnifiedData

\* A call made by anything but a page view.
CallFetchUnifiedData ==
    /\ StartFetchUnifiedData
    /\ UNCHANGED <<transformVars, legacyVars, uiVars>>

(***************************************************************************)
(* `await fetch(...)` settles (Header.tsx:259).  A network failure rejects *)
(* the call; any response, whatever its status, goes on to response.json().*)
(***************************************************************************)
FetchSettles(c) ==
    /\ calls[c].pc = "awaitFetch"
    /\ \E net \in NetOutcomes :
          IF net = "networkError"
            THEN calls' = [calls EXCEPT ![c].pc = "rejected", ![c].net = net,
                                        ![c].failedAt = "fetch",
                                        ![c].settledAt = NextSettlement]
            ELSE \E body \in BodyKinds :
                    calls' = [calls EXCEPT ![c].pc = "awaitJson", ![c].net = net,
                                           ![c].body = body]
    /\ UNCHANGED <<cachedUnifiedData, transformVars, legacyVars, uiVars>>

(***************************************************************************)
(* `cachedUnifiedData = await response.json(); return cachedUnifiedData!;` *)
(* (Header.tsx:260-261).  A body that does not parse rejects the call      *)
(* before the assignment; any parsed value is stored and returned.         *)
(***************************************************************************)
JsonSettles(c) ==
    /\ calls[c].pc = "awaitJson"
    /\ IF calls[c].body = "invalid"
         THEN /\ calls' = [calls EXCEPT ![c].pc = "rejected", ![c].failedAt = "json",
                                        ![c].settledAt = NextSettlement]
              /\ UNCHANGED cachedUnifiedData
         ELSE /\ cachedUnifiedData' = Assigned(ParseJson(calls[c].body, c))
              /\ calls' = [calls EXCEPT ![c].pc = "resolved", ![c].wrote = TRUE,
                                        ![c].value = cachedUnifiedData',
                                        ![c].settledAt = NextSettlement]
    /\ UNCHANGED <<transformVars, legacyVars, uiVars>>

NoDocument == [loaded |-> FALSE]

\* No legacy file has been parsed.
NoLegacyData == [file |-> "none"]

\* No page view is mounted.
NoView ==
    [page |-> "none", loading |-> TRUE, data |-> Null, call |-> 0,
     pc |-> "none", logged |-> FALSE]

\* The page before React has run a mount effect: `useState(false)`
\* (Header.tsx:6), a root element without the 'dark' class, and the stored
\* preference `stored` ("none": localStorage has no 'theme' item).
Unmounted(stored) ==
    [isDark |-> FALSE, classDark |-> FALSE, stored |-> stored,
     headerEffectRan |-> FALSE, appEffectRan |-> FALSE, lastToggle |-> "none"]

FetchInit ==
    /\ cachedUnifiedData = Null
    /\ calls = <<>>
    /\ unifiedData = NoDocument
    /\ original = NoDocument
    /\ lastCall = [fn |-> "none"]
    /\ result = <<>>
    /\ legacyData = NoLegacyData
    /\ legacyCalls = <<>>
    /\ theme = Unmounted("none")
    /\ view = NoView

FetchNext ==
    \/ CallFetchUnifiedData
    \/ \E c \in Started : FetchSettles(c)
    \/ \E c \in Started : JsonSettles(c)

FetchSpec == FetchInit /\ [][FetchNext]_vars

(***************************************************************************)
(* Claims about fetchUnifiedData, checked under FetchSpec.                 *)
(***************************************************************************)

\* No call up to and including j started while another was still pending.
SequentialUpTo(j) == \A k \in 1..j : calls[k].pendingAtStart = {}

\* Call j started after call i had resolved with a document (a value the
\* cache check accepts), in a session whose calls so far did not overlap.
StartedAfterSuccess(i, j) ==
    /\ i \in calls[j].doneBefore
    /\ calls[i].pc = "resolved"
    /\ Truthy(calls[i].value)
    /\ SequentialUpTo(j)

\* C1: of two sequential calls, the second started after the first resolved
\* with a document, the second issues no asset request and returns the very
\* object the first returned; the same holds for every further call.
C1_SequentialCallsMemoized ==
    \A i \in Started : \A j \in Started :
        StartedAfterSuccess(i, j) =>
            /\ ~calls[j].issued
            /\ calls[j].pc = "resolved"
            /\ calls[j].value = calls[i].value
            /\ Cardinality({k \in i..j : calls[k].issued}) <= 1

\* C1 witness: a call that fetched the document over the network, followed
\* by two further sequential calls.
C1_Witness ==
    /\ Len(calls) = 3
    /\ calls[1].issued /\ calls[1].wrote /\ calls[1].value.kind = "document"
    /\ StartedAfterSuccess(1, 2)
    /\ StartedAfterSuccess(1, 3)

\* C2 (as claimed): a call whose request did not succeed (network failure or
\* non-success status) rejects and stores nothing in the cache.  The code
\* defines no error classes, so the kind of the error is left out.
C2_FailedRequestRejects ==
    \A c \in Started :
        (Settled(c) /\ calls[c].net \in {"networkError", "httpError"}) =>
            (calls[c].pc = "rejected" /\ ~calls[c].wrote)

\* C3 (as claimed): a call whose response body is not valid JSON, or parses
\* to something that is not a unified document, rejects; the value is
\* neither returned nor stored in the cache.
C3_BadBodyRejects ==
    /\ \A c \in Started :
          (Settled(c) /\ calls[c].body \in {"invalid", "null", "other"}) =>
              (calls[c].pc = "rejected" /\ ~calls[c].wrote)
    /\ cachedUnifiedData.kind \in {"null", "document"}

\* C21 (as claimed): the cache cell is written at most once: once a call
\* has assigned a document to it, no call assigns it again, in any
\* interleaving of the calls.
C21_CacheWrittenAtMostOnce ==
    \A c \in Started : \A d \in Started :
        (/\ d # c
         /\ calls[c].wrote /\ calls[c].value.kind = "document"
         /\ calls[d].wrote) =>
            calls[d].settledAt < calls[c].settledAt

\* Call j started while call i was pending and before any call had resolved
\* with a value the cache check accepts.
Overlapping(i, j) ==
    /\ i \in calls[j].pendingAtStart
    /\ \A k \in calls[j].doneBefore : ~(calls[k].pc = "resolved" /\ Truthy(calls[k].value))

\* The call that settled later.
Later(i, j) == IF calls[i].settledAt > calls[j].settledAt THEN i ELSE j

\* C22: a call that starts while an earlier one is pending is not
\* deduplicated: both issue a request, and once both have resolved the cell
\* holds the value of the one that resolved last (as long as no further call
\* has resolved after them).
C22_ConcurrentCallsBothFetch ==
    \A i \in Started : \A j \in Started :
        Overlapping(i, j) =>
            /\ calls[i].issued /\ calls[j].issued
            /\ (/\ calls[i].pc = "resolved" /\ calls[j].pc = "resolved"
                /\ \A k \in Started :
                      calls[k].wrote => calls[k].settledAt <= calls[Later(i, j)].settledAt) =>
                  /\ calls[i].wrote /\ calls[j].wrote
                  /\ cachedUnifiedData = calls[Later(i, j)].value
                  /\ calls[Later(i, j)].body # "null" =>
                        /\ cachedUnifiedData.kind = calls[Later(i, j)].body
                        /\ cachedUnifiedData.ref = Later(i, j)

\* C22 witness: two overlapping calls that both fetched a document, the one
\* started first resolving last and leaving its document in the cell.
C22_Witness ==
    /\ Len(calls) >= 2
    /\ Overlapping(1, 2)
    /\ calls[1].value.kind = "document" /\ calls[2].value.kind = "document"
    /\ calls[2].settledAt < calls[1].settledAt
    /\ calls[1].value # calls[2].value
    /\ cachedUnifiedData = calls[1].value
    /\ cachedUnifiedData.ref = 1

\* Every call that settled before call j started was rejected, there was
\* such a call, and no calls up to j overlapped.
StartedAfterFailure(j) ==
    /\ calls[j].doneBefore # {}
    /\ \A k \in calls[j].doneBefore : calls[k].pc = "rejected"
    /\ SequentialUpTo(j)

\* C26: a rejected call stores nothing, so the failure is not memoized: as
\* long as every call has been rejected the cell is empty, the call after a
\* rejection issues a request of its own, and when it resolves its value is
\* stored in the cell.
C26_RejectionNotMemoized ==
    /\ \A c \in Started : calls[c].pc = "rejected" => ~calls[c].wrote /\ calls[c].value = Null
    /\ (\A c \in Started : calls[c].pc = "rejected") => cachedUnifiedData = Null
    /\ \A j \in Started :
          StartedAfterFailure(j) =>
              /\ calls[j].issued
              /\ calls[j].pc = "resolved" =>
                    /\ calls[j].wrote
                    /\ j = Len(calls) => cachedUnifiedData = calls[j].value

\* C26 witness: a rejected call, then a call that fetches a document, then
\* a call answered from the cell.
C26_Witness ==
    /\ Len(calls) = 3
    /\ calls[1].pc = "rejected"
    /\ StartedAfterFailure(2)
    /\ calls[2].issued /\ calls[2].wrote /\ calls[2].value.kind = "document"
    /\ StartedAfterSuccess(2, 3)
    /\ ~calls[3].issued
    /\ calls[3].value = calls[2].value

(***************************************************************************)
(* The transformers.  JavaScript values are modelled as follows.           *)
(*   - A string that is a year key is the sequence of its decimal digits   *)
(*     ("2023" is <<2, 0, 2, 3>>), so that parseInt and the string order   *)
(*     used by Array.prototype.sort() are computed, not assumed.           *)
(*   - An object keyed by year is the sequence of its [key, value] entries *)
(*     in insertion order, keys distinct.                                  *)
(*   - Any other object is a function on its own property names; a         *)
(*     property that is absent (reads as undefined) is not in its DOMAIN.  *)
(***************************************************************************)
MaxYears == 2       \* year entries of one region's payload
MaxDistricts == 2   \* entries of a district / subdistrict list

Has(obj, k) == k \in DOMAIN obj

Range(s) == {s[i] : i \in 1..Len(s)}

\* seq.map(f), f a function on the elements of seq
SeqMap(s, f) == [i \in 1..Len(s) |-> f[s[i]]]

\* seq.filter(p)
RECURSIVE SeqFilter(_, _)
SeqFilter(s, keep) ==
    IF s = <<>> THEN <<>>
    ELSE IF Head(s) \in keep THEN <<Head(s)>> \o SeqFilter(Tail(s), keep)
    ELSE SeqFilter(Tail(s), keep)

\* Array.prototype.sort(compare): stable; less[<<a, b>>] stands for
\* compare(a, b) < 0.
\* (SortTiesReversed: a sort that is not stable, elements that compare equal
\* coming out in the reverse of their input order.)
SortTiesReversed(s, less) ==
    LET n == Len(s)
        rank(i) == Cardinality({j \in 1..n :
                       \/ less[<<s[j], s[i]>>]
                       \/ (~less[<<s[i], s[j]>>] /\ j > i)})
    IN  [k \in 1..n |-> s[CHOOSE i \in 1..n : rank(i) = k - 1]]
StableSort(s, less) ==
    LET n == Len(s)
        rank(i) == Cardinality({j \in 1..n :
                       \/ less[<<s[j], s[i]>>]
                       \/ (~less[<<s[i], s[j]>>] /\ j < i)})
    IN  [k \in 1..n |-> s[CHOOSE i \in 1..n : rank(i) = k - 1]]

Pairs(s) == Range(s) \X Range(s)

\* parseInt(s) of a string of decimal digits.
RECURSIVE parseInt(_)
parseInt(s) ==
    IF s = <<>> THEN 0
    ELSE 10 * parseInt(SubSeq(s, 1, Len(s) - 1)) + s[Len(s)]

\* a < b in the order of the default sort(): strings compared code unit by
\* code unit (for digits, digit by digit), a proper prefix coming first.
StringLess(a, b) ==
    \/ \E k \in 1..Len(a) :
          /\ k <= Len(b)
          /\ \A i \in 1..(k - 1) : a[i] = b[i]
          /\ a[k] < b[k]
    \/ /\ Len(a) < Len(b)
       /\ \A i \in 1..Len(a) : a[i] = b[i]

\* `key in obj` and obj[key] of an object keyed by year.
HasKey(obj, key) == \E i \in 1..Len(obj) : obj[i].key = key
Get(obj, key) == obj[CHOOSE i \in 1..Len(obj) : obj[i].key = key].value

\* Object.keys / Object.entries / Object.values enumerate the own property
\* keys in OrdinaryOwnPropertyKeys order: keys that are canonical array
\* indices (every year key of the model is one) in ascending numeric order,
\* whatever the order of insertion.
IntLess(a, b) == parseInt(a) < parseInt(b)
ObjectEntries(obj) == StableSort(obj, [p \in Pairs(obj) |-> IntLess(p[1].key, p[2].key)])
ObjectKeys(obj) == SeqMap(ObjectEntries(obj), [e \in Range(obj) |-> e.key])
ObjectValues(obj) == SeqMap(ObjectEntries(obj), [e \in Range(obj) |-> e.value])

\* `x || 0` on a count that may be absent.
OrZero(obj, k) == IF Has(obj, k) /\ obj[k] # 0 THEN obj[k] ELSE 0

\* `x || false` on a flag that may be absent (Header.tsx:296, 337, 367).
\* (OrFalseUnlessFalse: the default inverted, as `x !== false` would.)
OrFalseUnlessFalse(obj, k) == IF Has(obj, k) THEN obj[k] ELSE TRUE
OrFalse(obj, k) == IF Has(obj, k) THEN obj[k] ELSE FALSE

ZeroCount == [laki |-> 0, perempuan |-> 0, total |-> 0]

\* `diseases[disease] || { laki: 0, perempuan: 0, total: 0 }`
\* (Header.tsx:272, 290): an object is truthy, so only absence falls back.
DiseaseOrZero(diseases, disease) ==
    IF Has(diseases, disease) THEN diseases[disease] ELSE ZeroCount

\* `districts?.find(d => d.id === id)` then `districtInfo?.name || id`
\* (Header.tsx:273, 276): the first catalog entry with the id, the raw id
\* when the catalog is absent, has no such entry, or the name is empty.
\* (DistrictNameOfFirstEntry: a find whose predicate ignores the id.)
DistrictNameOfFirstEntry(region, id) ==
    IF ~Has(region, "districts") THEN id
    ELSE LET ds == region.districts
         IN  IF ds = <<>> THEN id ELSE ds[1].name
DistrictName(region, id) ==
    IF ~Has(region, "districts") THEN id
    ELSE LET ds == region.districts
             hits == {i \in 1..Len(ds) : ds[i].id = id}
             first == CHOOSE i \in hits : \A j \in hits : i <= j
         IN  IF hits = {} \/ ds[first].name = "" THEN id ELSE ds[first].name

\* getJakartaDistrictData, Header.tsx:267-283.
\* (getJakartaDistrictDataSkippingAbsent: districts without the disease are
\* dropped instead of reported with the zero triple.)
getJakartaDistrictDataSkippingAbsent(doc, year, disease) ==
    IF ~HasKey(doc.data.jakarta, year) THEN <<>>
    ELSE LET cases == Get(doc.data.jakarta, year).cases
         IN  SeqMap(SeqFilter(cases, {c \in Range(cases) : Has(c.diseases, disease)}),
                    [districtData \in {c \in Range(cases) : Has(c.diseases, disease)} |->
                        [name |-> DistrictName(doc.regions.jakarta, districtData.district),
                         id |-> districtData.district,
                         laki |-> districtData.diseases[disease].laki,
                         perempuan |-> districtData.diseases[disease].perempuan,
                         total |-> districtData.diseases[disease].total]])
\* (getJakartaDistrictDataOrFirstYear: a year without an entry answered
\* from the first year the data has.)
getJakartaDistrictDataOrFirstYear(doc, year, disease) ==
    IF doc.data.jakarta = <<>> THEN <<>>
    ELSE LET yearData == IF HasKey(doc.data.jakarta, year) THEN Get(doc.data.jakarta, year)
                         ELSE ObjectValues(doc.data.jakarta)[1]
         IN  SeqMap(yearData.cases,
                    [districtData \in Range(yearData.cases) |->
                        LET diseaseData == DiseaseOrZero(districtData.diseases, disease)
                        IN  [name |-> DistrictName(doc.regions.jakarta, districtData.district),
                             id |-> districtData.district,
                             laki |-> diseaseData.laki,
                             perempuan |-> diseaseData.perempuan,
                             total |-> diseaseData.total]])
getJakartaDistrictData(doc, year, disease) ==
    IF ~HasKey(doc.data.jakarta, year) THEN <<>>
    ELSE SeqMap(Get(doc.data.jakarta, year).cases,
                [districtData \in Range(Get(doc.data.jakarta, year).cases) |->
                    LET diseaseData == DiseaseOrZero(districtData.diseases, disease)
                    IN  [name |-> DistrictName(doc.regions.jakarta, districtData.district),
                         id |-> districtData.district,
                         laki |-> diseaseData.laki,
                         perempuan |-> diseaseData.perempuan,
                         total |-> diseaseData.total]])

\* `Object.keys(...).sort()` (Header.tsx:287, 362): the default sort orders
\* the keys as strings.
SortedKeys(obj) ==
    LET keys == ObjectKeys(obj)
    IN  StableSort(keys, [p \in Pairs(keys) |-> StringLess(p[1], p[2])])

\* getJakartaYearComparison, Header.tsx:286-299.
getJakartaYearComparison(doc, disease) ==
    SeqMap(SortedKeys(doc.data.jakarta),
           [year \in Range(ObjectKeys(doc.data.jakarta)) |->
               LET yearData == Get(doc.data.jakarta, year)
                   summary == DiseaseOrZero(yearData.summary, disease)
               IN  [year |-> year,
                    total |-> summary.total,
                    laki |-> summary.laki,
                    perempuan |-> summary.perempuan,
                    isEstimated |-> OrFalse(yearData, "isEstimated")]])

\* `(a, b) => parseInt(a.year) - parseInt(b.year)` (Header.tsx:309, 339).
\* (YearLessAsStrings: the years compared as strings, without parseInt.)
YearLessAsStrings(a, b) == StringLess(a.year, b.year)
YearLess(a, b) == parseInt(a.year) < parseInt(b.year)

\* (TotalAscending: the comparator with its operands exchanged,
\* `a.total - b.total`.)
TotalAscending(a, b) == a.total < b.total

\* `(a, b) => b.total - a.total` (Header.tsx:327, 357).
TotalGreater(a, b) == b.total < a.total

\* getCirebonYearlyTrend, Header.tsx:302-310.  `total: data.total` copies
\* the property as it is: the record has no total when the entry has none
\* (the property reads as undefined).
getCirebonYearlyTrend(doc) ==
    LET yearlyData == doc.data.cirebon.yearlyData
        rows == SeqMap(ObjectEntries(yearlyData),
                       [e \in Range(yearlyData) |->
                           IF Has(e.value, "total")
                             THEN [year |-> e.key, total |-> e.value.total]
                             ELSE [year |-> e.key]])
    IN  StableSort(rows, [p \in Pairs(rows) |-> YearLess(p[1], p[2])])

RECURSIVE SumSeq(_)
SumSeq(s) == IF s = <<>> THEN 0 ELSE Head(s) + SumSeq(Tail(s))

\* (SubdistrictTotalOfLastYear: `total =` in place of `total +=`, which keeps
\* the count of the last year only.)
SubdistrictTotalOfLastYear(yearlyData, id) ==
    IF yearlyData = <<>> THEN 0
    ELSE LET values == ObjectValues(yearlyData)
         IN  IF Has(values[Len(values)], id) THEN values[Len(values)][id] ELSE 0

\* `total += (yearData[sub.id] as number) || 0` over Object.values(yearlyData)
\* (Header.tsx:318-321, 348-351).
SubdistrictTotal(yearlyData, id) ==
    SumSeq(SeqMap(ObjectValues(yearlyData),
                  [yearData \in Range(ObjectValues(yearlyData)) |-> OrZero(yearData, id)]))

SubdistrictTotals(region) ==
    SeqMap(region.subdistricts,
           [sub \in Range(region.subdistricts) |->
               [name |-> sub.name, id |-> sub.id,
                total |-> SubdistrictTotal(region.yearlyData, sub.id)]])

\* getCirebonBySubdistrict, Header.tsx:313-328.
getCirebonBySubdistrict(doc) ==
    LET rows == SubdistrictTotals(doc.data.cirebon)
    IN  StableSort(rows, [p \in Pairs(rows) |-> TotalGreater(p[1], p[2])])

\* (getBogorYearlyTrendWithoutDefaults: the record built as
\* getCirebonYearlyTrend builds it, the properties copied without `|| 0` and
\* `|| false`.)
getBogorYearlyTrendWithoutDefaults(doc) ==
    LET yearlyData == doc.data.bogor.yearlyData
        rows == SeqMap(ObjectEntries(yearlyData),
                       [e \in Range(yearlyData) |->
                           [k \in {"year"} \cup (DOMAIN e.value \cap {"total", "isEstimated"}) |->
                               IF k = "year" THEN e.key ELSE e.value[k]]])
    IN  StableSort(rows, [p \in Pairs(rows) |-> YearLess(p[1], p[2])])

\* getBogorYearlyTrend, Header.tsx:331-340.
getBogorYearlyTrend(doc) ==
    LET yearlyData == doc.data.bogor.yearlyData
        rows == SeqMap(ObjectEntries(yearlyData),
                       [e \in Range(yearlyData) |->
                           [year |-> e.key,
                            total |-> OrZero(e.value, "total"),
                            isEstimated |-> OrFalse(e.value, "isEstimated")]])
    IN  StableSort(rows, [p \in Pairs(rows) |-> YearLess(p[1], p[2])])

\* (getBogorBySubdistrictUnfiltered: the chain without its
\* `.filter(s => s.total > 0)`.)
getBogorBySubdistrictUnfiltered(doc) ==
    LET rows == SubdistrictTotals(doc.data.bogor)
    IN  StableSort(rows, [p \in Pairs(rows) |-> TotalGreater(p[1], p[2])])

\* getBogorBySubdistrict, Header.tsx:343-358.
getBogorBySubdistrict(doc) ==
    LET all == SubdistrictTotals(doc.data.bogor)
        rows == SeqFilter(all, {r \in Range(all) : r.total > 0})
    IN  StableSort(rows, [p \in Pairs(rows) |-> TotalGreater(p[1], p[2])])

\* (JatimDiseasesWithoutTifoid: the list one disease short.)
JatimDiseasesWithoutTifoid == {"diare-akut", "dengue", "pneumonia"}

\* `const diseases = ['diare-akut', 'dengue', 'pneumonia', 'tifoid']`
\* (Header.tsx:363).
JatimDiseases == {"diare-akut", "dengue", "pneumonia", "tifoid"}

\* getJatimDiseaseComparison, Header.tsx:361-375.
getJatimDiseaseComparison(doc) ==
    SeqMap(SortedKeys(doc.data.jatim.yearlyData),
           [year \in Range(ObjectKeys(doc.data.jatim.yearlyData)) |->
               LET yearData == Get(doc.data.jatim.yearlyData, year)
               IN  [k \in {"year", "isPartialYear"} \cup JatimDiseases |->
                       IF k = "year" THEN year
                       ELSE IF k = "isPartialYear" THEN OrFalse(yearData, "isPartialYear")
                       ELSE IF Has(yearData.diseases, k)
                              THEN OrZero(yearData.diseases[k], "total")
                              ELSE 0]])

\* The decimal digits of a natural number, as a string (a sequence of
\* one-character strings).
DigitChar(d) == CASE d = 0 -> "0" [] d = 1 -> "1" [] d = 2 -> "2" [] d = 3 -> "3"
                  [] d = 4 -> "4" [] d = 5 -> "5" [] d = 6 -> "6" [] d = 7 -> "7"
                  [] d = 8 -> "8" [] d = 9 -> "9"

RECURSIVE NatToString(_)
NatToString(n) ==
    IF n < 10 THEN <<DigitChar(n)>>
    ELSE NatToString(n \div 10) \o <<DigitChar(n % 10)>>

\* The digit characters, and the value of a string of them.
Digits == {DigitChar(d) : d \in 0..9}

DigitOf(ch) == CHOOSE d \in 0..9 : DigitChar(d) = ch

RECURSIVE DigitsValue(_)
DigitsValue(s) ==
    IF s = <<>> THEN 0 ELSE 10 * DigitsValue(SubSeq(s, 1, Len(s) - 1)) + DigitOf(s[Len(s)])

\* (PercentTruncated: the decimal cut after its first fractional digit
\* instead of rounded.)
PercentTruncated(num, den) ==
    LET mag == IF num < 0 THEN -num ELSE num
        tenths == (1000 * mag) \div den
        digits == NatToString(tenths \div 10) \o <<".", DigitChar(tenths % 10)>>
    IN  IF num < 0 THEN <<"-">> \o digits ELSE digits

\* ((num / den) * 100).toFixed(1) for den > 0 (Header.tsx:385): the value
\* rounded to one decimal, half away from zero, with the sign of the value.
\* (The quotient is taken exactly; for the counts of the model the double
\* arithmetic of the code rounds to the same decimal.)
PercentToFixed1(num, den) ==
    LET mag == IF num < 0 THEN -num ELSE num
        tenths == (2 * 1000 * mag + den) \div (2 * den)
        digits == NatToString(tenths \div 10) \o <<".", DigitChar(tenths % 10)>>
    IN  IF num < 0 THEN <<"-">> \o digits ELSE digits

\* (DifteriTotalOrFirstYear: a year without an entry read off the first
\* entry of the Jakarta data instead of defaulting to 0.)
DifteriTotalOrFirstYear(doc, year) ==
    LET entries == ObjectEntries(doc.data.jakarta)
        present == {i \in 1..Len(entries) : entries[i].key = year}
        summary == IF present # {} THEN Get(doc.data.jakarta, year).summary
                   ELSE IF entries # <<>> THEN entries[1].value.summary
                   ELSE [d \in {} |-> 0]
    IN  IF Has(summary, "difteri") THEN OrZero(summary["difteri"], "total") ELSE 0

\* `jakartaYYYY?.summary['difteri']?.total || 0` (Header.tsx:382-383).
DifteriTotal(doc, year) ==
    IF ~HasKey(doc.data.jakarta, year) THEN 0
    ELSE LET summary == Get(doc.data.jakarta, year).summary
         IN  IF Has(summary, "difteri") THEN OrZero(summary["difteri"], "total") ELSE 0

Year2022 == <<2, 0, 2, 2>>
Year2023 == <<2, 0, 2, 3>>

\* getSummaryStats, Header.tsx:378-399.
getSummaryStats(doc) ==
    LET difteri2023 == DifteriTotal(doc, Year2023)
        difteri2022 == DifteriTotal(doc, Year2022)
        difteriChange == difteri2023 - difteri2022
    IN  [jakartaDifteri2023 |-> difteri2023,
         jakartaDifteri2022 |-> difteri2022,
         difteriChange |-> difteriChange,
         difteriChangePercent |->
             IF difteri2022 > 0 THEN PercentToFixed1(difteriChange, difteri2022)
             ELSE <<"0">>,
         cirebonTotal |-> doc.data.cirebon.summary.totalAllYears,
         cirebonPeak |-> doc.data.cirebon.summary.peakCount,
         cirebonPeakYear |-> doc.data.cirebon.summary.peakYear,
         bogorTotal |-> doc.data.bogor.summary.totalAllYears,
         hotspots |-> doc.analytics.hotspots,
         recommendations |-> doc.analytics.recommendations]

(***************************************************************************)
(* The documents the transformers are applied to: a fixture document, with *)
(* one part at a time ranging over a pool of shapes (present and absent    *)
(* optional properties, every insertion order of the year keys, district   *)
(* ids with and without a catalog entry).                                  *)
(***************************************************************************)
Count(l, p) == [laki |-> l, perempuan |-> p, total |-> l + p]

\* Year keys, one of them not four digits long.
YearKeyPool == {<<9, 9, 9>>, Year2022, Year2023}

Injective(f) == \A i \in DOMAIN f : \A j \in DOMAIN f : f[i] = f[j] => i = j

\* Every object with at most MaxYears year keys, in every insertion order,
\* whose values are drawn from valuePool.
YearObjects(valuePool) ==
    UNION {{[i \in 1..k |-> [key |-> ks[i], value |-> vs[i]]] :
                ks \in {x \in [1..k -> YearKeyPool] : Injective(x)},
                vs \in [1..k -> valuePool]} : k \in 0..MaxYears}

\* Every list of at most MaxDistricts entries of pool, no two with the same
\* idOf.
DistinctLists(pool, idOf) ==
    UNION {{x \in [1..k -> pool] :
                \A i \in 1..k : \A j \in 1..k : idOf[x[i]] = idOf[x[j]] => i = j} :
           k \in 0..MaxDistricts}

NoProperties == [d \in {} |-> 0]

DiseaseMapPool ==
    {NoProperties,
     [campak |-> Count(1, 1)],
     [difteri |-> Count(2, 1), campak |-> Count(1, 2)]}

JakartaCatalogPool ==
    {[id |-> "jakpus", name |-> "Jakarta Pusat"],
     [id |-> "jaksel", name |-> "Jakarta Selatan"]}

\* regions.jakarta, with and without the optional `districts`.
JakartaRegions ==
    {[name |-> "DKI Jakarta"]}
    \cup {[name |-> "DKI Jakarta", districts |-> ds] :
             ds \in DistinctLists(JakartaCatalogPool,
                                  [d \in JakartaCatalogPool |-> d.id])}

\* The district list of one Jakarta year; "kepseribu" has no catalog entry.
CasePool == [district : {"jakpus", "jaksel", "kepseribu"}, diseases : DiseaseMapPool]

CaseLists == DistinctLists(CasePool, [c \in CasePool |-> c.district])

\* One year of data.jakarta, `isEstimated` optional.
JakartaYearPool ==
    {[cases |-> <<>>, summary |-> [difteri |-> Count(10, 5)], isEstimated |-> FALSE],
     [cases |-> <<>>, summary |-> [difteri |-> Count(14, 8), campak |-> Count(1, 1)],
      isEstimated |-> TRUE],
     [cases |-> <<>>, summary |-> [campak |-> Count(1, 0)]]}

SubdistrictPool ==
    {[id |-> "kejaksan", name |-> "Kejaksan"], [id |-> "pekalipan", name |-> "Pekalipan"]}

SubdistrictLists == DistinctLists(SubdistrictPool, [d \in SubdistrictPool |-> d.id])

\* One year of a Cirebon/Bogor yearlyData: counts by subdistrict id, with
\* the optional `total` and `isEstimated` siblings.
RegionalYearPool ==
    {[total |-> 4, kejaksan |-> 2, pekalipan |-> 2, isEstimated |-> FALSE],
     [kejaksan |-> 2],
     [total |-> 0, pekalipan |-> 0, isEstimated |-> TRUE]}

JatimCount(i, r) == [igd |-> i, rawat_inap |-> r, total |-> i + r]

\* One year of data.jatim.yearlyData, `isPartialYear` optional.
JatimYearPool ==
    {[diseases |-> [d \in {"diare-akut", "dengue", "ispa"} |->
                       IF d = "dengue" THEN JatimCount(1, 2) ELSE JatimCount(3, 2)]],
     [diseases |-> [d \in {"pneumonia", "tifoid"} |->
                       IF d = "tifoid" THEN JatimCount(0, 0) ELSE JatimCount(0, 4)],
      isPartialYear |-> TRUE],
     [diseases |-> NoProperties, isPartialYear |-> FALSE]}

RegionalSummary == [totalAllYears |-> 5, peakYear |-> 2023, peakCount |-> 3,
                    hotspot |-> "kejaksan"]

\* The fixture: Jakarta 2022 and 2023 with diphtheria totals 15 and 22.
BaseDocument ==
    [loaded |-> TRUE,
     regions |-> [jakarta |-> [name |-> "DKI Jakarta",
                               districts |-> <<[id |-> "jakpus", name |-> "Jakarta Pusat"]>>]],
     data |->
        [jakarta |->
            <<[key |-> Year2023,
               value |-> [cases |-> <<[district |-> "jakpus",
                                       diseases |-> [difteri |-> Count(14, 8)]]>>,
                          summary |-> [difteri |-> Count(14, 8)]]],
              [key |-> Year2022,
               value |-> [cases |-> <<[district |-> "jakpus",
                                       diseases |-> [difteri |-> Count(10, 5)]]>>,
                          summary |-> [difteri |-> Count(10, 5)]]]>>,
         cirebon |-> [subdistricts |-> <<[id |-> "kejaksan", name |-> "Kejaksan"]>>,
                      yearlyData |-> <<[key |-> Year2023,
                                        value |-> [total |-> 2, kejaksan |-> 2]]>>,
                      summary |-> RegionalSummary],
         bogor |-> [subdistricts |-> <<[id |-> "pekalipan", name |-> "Pekalipan"]>>,
                    yearlyData |-> <<[key |-> Year2022,
                                      value |-> [total |-> 1, pekalipan |-> 1]]>>,
                    summary |-> RegionalSummary],
         jatim |-> [yearlyData |-> <<>>]],
     analytics |-> [hotspots |-> <<[region |-> "Cirebon", disease |-> "rabies",
                                    year |-> 2023, cases |-> 3]>>,
                    recommendations |-> <<"vaksinasi">>]]

\* The fixture with its Jakarta catalog and one year's district list varied.
JakartaCaseDocuments ==
    {[BaseDocument EXCEPT
         !.regions.jakarta = region,
         !.data.jakarta = <<[key |-> Year2023,
                             value |-> [cases |-> cs,
                                        summary |-> [difteri |-> Count(14, 8)]]]>>] :
        region \in JakartaRegions, cs \in CaseLists}

\* The fixture with the years of data.jakarta varied.
JakartaYearDocuments ==
    {[BaseDocument EXCEPT !.data.jakarta = years] : years \in YearObjects(JakartaYearPool)}

\* Diphtheria totals of one year: none, totals that divide evenly, a total
\* whose percentages fall on a rounding tie (16), and the fixture's.
DifteriTotalPool == {0, 5, 15, 16, 22}

\* One optional year of data.jakarta for getSummaryStats: no entry (the
\* empty sequence), an entry whose summary has no diphtheria, or an entry
\* with a diphtheria total.
OptionalSummaryYears ==
    {<<>>, <<[cases |-> <<>>, summary |-> [campak |-> Count(1, 0)]]>>}
    \cup {<<[cases |-> <<>>, summary |-> [difteri |-> Count(t - t \div 2, t \div 2)]]>> :
             t \in DifteriTotalPool}

\* The fixture with the 2023 and 2022 entries of data.jakarta varied.
SummaryDocuments ==
    {[BaseDocument EXCEPT
         !.data.jakarta =
             SeqMap(y23, [v \in Range(y23) |-> [key |-> Year2023, value |-> v]])
             \o SeqMap(y22, [v \in Range(y22) |-> [key |-> Year2022, value |-> v]])] :
        y23 \in OptionalSummaryYears, y22 \in OptionalSummaryYears}

\* The fixture with Cirebon's and Bogor's payload varied (both carry the
\* same subdistrict list and yearly data).
RegionalDocuments ==
    {[BaseDocument EXCEPT
         !.data.cirebon.subdistricts = subs, !.data.cirebon.yearlyData = years,
         !.data.bogor.subdistricts = subs, !.data.bogor.yearlyData = years] :
        subs \in SubdistrictLists, years \in YearObjects(RegionalYearPool)}

\* The fixture with the years of data.jatim varied.
JatimDocuments ==
    {[BaseDocument EXCEPT !.data.jatim.yearlyData = years] :
        years \in YearObjects(JatimYearPool)}

Documents ==
    {BaseDocument} \cup JakartaCaseDocuments \cup JakartaYearDocuments
    \cup RegionalDocuments \cup JatimDocuments \cup SummaryDocuments

\* The arguments the pages pass (Overview.tsx:49, Jakarta.tsx:44-45), and
\* a disease no document records.
YearArgs == {Year2022, Year2023}
DiseaseArgs == {"difteri", "polio"}

(***************************************************************************)
(* What a call leaves of its argument.  Every .sort() of the transformers  *)
(* is called on an array that map, filter or Object.keys has just created  *)
(* (Header.tsx:287, 309, 327, 339, 357, 362), and nothing is assigned to   *)
(* a property of the document: no list of the document is reordered.       *)
(***************************************************************************)
\* (SortsSubdistrictsInPlace: `subdistricts.sort(...)` on the document's own
\* list.)
SortsSubdistrictsInPlace(fn) == fn = "getCirebonBySubdistrict"
SortsDocumentList(fn) == FALSE

DocumentAfter(fn, doc, res) ==
    IF SortsDocumentList(fn)
      THEN [doc EXCEPT !.data.cirebon.subdistricts =
                          SeqMap(res, [r \in Range(res) |-> [id |-> r.id, name |-> r.name]])]
      ELSE doc

\* One transformer call of a page render, with its arguments.
Apply(call, res) ==
    /\ lastCall' = call
    /\ result' = res
    /\ unifiedData' = DocumentAfter(call.fn, unifiedData, res)
    /\ UNCHANGED <<original, fetchVars, legacyVars, uiVars>>

Call_getJakartaDistrictData ==
    \E year \in YearArgs : \E disease \in DiseaseArgs :
        Apply([fn |-> "getJakartaDistrictData", year |-> year, disease |-> disease],
              getJakartaDistrictData(unifiedData, year, disease))

Call_getJakartaYearComparison ==
    \E disease \in DiseaseArgs :
        Apply([fn |-> "getJakartaYearComparison", disease |-> disease],
              getJakartaYearComparison(unifiedData, disease))

Call_getCirebonYearlyTrend ==
    Apply([fn |-> "getCirebonYearlyTrend"], getCirebonYearlyTrend(unifiedData))

Call_getCirebonBySubdistrict ==
    Apply([fn |-> "getCirebonBySubdistrict"], getCirebonBySubdistrict(unifiedData))

Call_getBogorYearlyTrend ==
    Apply([fn |-> "getBogorYearlyTrend"], getBogorYearlyTrend(unifiedData))

Call_getBogorBySubdistrict ==
    Apply([fn |-> "getBogorBySubdistrict"], getBogorBySubdistrict(unifiedData))

Call_getJatimDiseaseComparison ==
    Apply([fn |-> "getJatimDiseaseComparison"], getJatimDiseaseComparison(unifiedData))

Call_getSummaryStats ==
    Apply([fn |-> "getSummaryStats"], getSummaryStats(unifiedData))

Init ==
    /\ cachedUnifiedData = Null
    /\ calls = <<>>
    /\ unifiedData \in Documents
    /\ original = unifiedData
    /\ lastCall = [fn |-> "none"]
    /\ result = <<>>
    /\ legacyData = NoLegacyData
    /\ legacyCalls = <<>>
    /\ theme = Unmounted("none")
    /\ view = NoView

Next ==
    \/ Call_getJakartaDistrictData
    \/ Call_getJakartaYearComparison
    \/ Call_getCirebonYearlyTrend
    \/ Call_getCirebonBySubdistrict
    \/ Call_getBogorYearlyTrend
    \/ Call_getBogorBySubdistrict
    \/ Call_getJatimDiseaseComparison
    \/ Call_getSummaryStats

Spec == Init /\ [][Next]_vars

(***************************************************************************)
(* Claims about the transformers, checked under Spec.                      *)
(***************************************************************************)
Applied(fn) == lastCall.fn = fn

IdsOf(s) == SeqMap(s, [r \in Range(s) |-> r.id])

CasesRead == Get(original.data.jakarta, lastCall.year).cases

AppliedToPresentYear ==
    /\ Applied("getJakartaDistrictData")
    /\ HasKey(original.data.jakarta, lastCall.year)

\* C5: for a year present in the Jakarta data, getJakartaDistrictData
\* returns one record per entry of the year's district list, in the list's
\* order, each with the district id and the counts recorded for the
\* requested disease, or the zero triple when the district records none.
C5_OneRecordPerDistrict ==
    AppliedToPresentYear =>
        /\ Len(result) = Len(CasesRead)
        /\ \A i \in 1..Len(CasesRead) :
              LET c == CasesRead[i]
                  r == result[i]
              IN  /\ r.id = c.district
                  /\ IF lastCall.disease \in DOMAIN c.diseases
                       THEN /\ r.laki = c.diseases[lastCall.disease].laki
                            /\ r.perempuan = c.diseases[lastCall.disease].perempuan
                            /\ r.total = c.diseases[lastCall.disease].total
                       ELSE r.laki = 0 /\ r.perempuan = 0 /\ r.total = 0

\* C5 witness: two districts, the first without the requested disease, the
\* second with it.
C5_Witness ==
    /\ AppliedToPresentYear
    /\ Len(CasesRead) = 2
    /\ lastCall.disease \notin DOMAIN CasesRead[1].diseases
    /\ lastCall.disease \in DOMAIN CasesRead[2].diseases
    /\ result[2].total > 0

\* C6: the name of a record of getJakartaDistrictData is the name of the
\* catalog entry with the district's id, and the raw id when the catalog
\* has no such entry or is absent.
C6_DisplayNameOrRawId ==
    AppliedToPresentYear =>
        \A i \in 1..Len(CasesRead) :
            LET id == CasesRead[i].district
                region == original.regions.jakarta
                entries == IF Has(region, "districts")
                             THEN {d \in Range(region.districts) : d.id = id}
                             ELSE {}
            IN  /\ i \in DOMAIN result
                /\ IF entries = {} THEN result[i].name = id
                   ELSE \E d \in entries : result[i].name = d.name

\* C6 witness: a catalog of two entries, a district resolved by the second
\* of them and a district the catalog does not list.
C6_Witness ==
    /\ AppliedToPresentYear
    /\ Has(original.regions.jakarta, "districts")
    /\ Len(original.regions.jakarta.districts) = 2
    /\ Len(result) = 2
    /\ result[1].id = original.regions.jakarta.districts[2].id
    /\ result[1].name = original.regions.jakarta.districts[2].name
    /\ result[2].id = "kepseribu"
    /\ result[2].name = "kepseribu"

\* The result holds one record per year key of obj, in strictly ascending
\* order of the years' integer values.
AscendingByYear(obj) ==
    /\ Len(result) = Len(obj)
    /\ {result[i].year : i \in 1..Len(result)} = {obj[i].key : i \in 1..Len(obj)}
    /\ \A i \in 1..Len(result) : \A j \in 1..Len(result) :
          i < j => parseInt(result[i].year) < parseInt(result[j].year)

\* C7 (as claimed): getJakartaYearComparison and getJatimDiseaseComparison
\* return one record per year, in strictly ascending order of the year's
\* integer value, for any set of year keys in any insertion order.
C7_ComparisonsAscendingByYear ==
    /\ Applied("getJakartaYearComparison") => AscendingByYear(original.data.jakarta)
    /\ Applied("getJatimDiseaseComparison") =>
          AscendingByYear(original.data.jatim.yearlyData)

\* C8: getCirebonYearlyTrend and getBogorYearlyTrend return one record per
\* year key of yearlyData, in strictly ascending order of the year's integer
\* value, whatever the insertion order.
C8_TrendsAscendingByYear ==
    /\ Applied("getCirebonYearlyTrend") =>
          AscendingByYear(original.data.cirebon.yearlyData)
    /\ Applied("getBogorYearlyTrend") =>
          AscendingByYear(original.data.bogor.yearlyData)

\* C8 witness: a trend over two years inserted in descending order, one of
\* them a key that is not four digits long.
C8_Witness ==
    /\ Applied("getBogorYearlyTrend")
    /\ Len(original.data.bogor.yearlyData) = 2
    /\ original.data.bogor.yearlyData[1].key = Year2023
    /\ original.data.bogor.yearlyData[2].key = <<9, 9, 9>>
    /\ result[1].year = <<9, 9, 9>>

\* C9: in getJakartaYearComparison, a year whose summary lacks the disease
\* yields the zero triple and a year without an estimated flag yields
\* isEstimated = FALSE; otherwise the record carries the summary's counts
\* and the year's flag.
C9_YearComparisonDefaults ==
    Applied("getJakartaYearComparison") =>
        \A i \in 1..Len(result) :
            LET r == result[i]
                yearData == Get(original.data.jakarta, r.year)
            IN  /\ HasKey(original.data.jakarta, r.year)
                /\ IF lastCall.disease \in DOMAIN yearData.summary
                     THEN /\ r.total = yearData.summary[lastCall.disease].total
                          /\ r.laki = yearData.summary[lastCall.disease].laki
                          /\ r.perempuan = yearData.summary[lastCall.disease].perempuan
                     ELSE r.total = 0 /\ r.laki = 0 /\ r.perempuan = 0
                /\ IF "isEstimated" \in DOMAIN yearData
                     THEN r.isEstimated = yearData.isEstimated
                     ELSE r.isEstimated = FALSE

\* C9 witness: a comparison over a year with neither the disease nor the
\* flag and a year with both, the flag set.
C9_Witness ==
    /\ Applied("getJakartaYearComparison")
    /\ \E i \in 1..Len(result) :
          LET yearData == Get(original.data.jakarta, result[i].year)
          IN  /\ lastCall.disease \notin DOMAIN yearData.summary
              /\ "isEstimated" \notin DOMAIN yearData
    /\ \E i \in 1..Len(result) :
          /\ result[i].isEstimated
          /\ result[i].total > 0

\* C10 (as claimed): every record of getCirebonYearlyTrend has a numeric
\* total, 0 for a year whose entry has no `total`.
C10_CirebonTotalDefaultsToZero ==
    Applied("getCirebonYearlyTrend") =>
        \A i \in 1..Len(result) :
            /\ "total" \in DOMAIN result[i]
            /\ ("total" \notin DOMAIN Get(original.data.cirebon.yearlyData, result[i].year)
                  => result[i].total = 0)

\* C11: getBogorYearlyTrend returns one record per year; its total is the
\* entry's `total`, 0 when the entry has none, and its isEstimated is the
\* entry's flag, FALSE when the entry has none.
C11_BogorTrendDefaults ==
    Applied("getBogorYearlyTrend") =>
        /\ Len(result) = Len(original.data.bogor.yearlyData)
        /\ \A i \in 1..Len(result) :
              LET r == result[i]
                  yearData == Get(original.data.bogor.yearlyData, r.year)
              IN  /\ HasKey(original.data.bogor.yearlyData, r.year)
                  /\ {"total", "isEstimated"} \subseteq DOMAIN r
                  /\ r.total = (IF "total" \in DOMAIN yearData THEN yearData.total ELSE 0)
                  /\ r.isEstimated = (IF "isEstimated" \in DOMAIN yearData
                                        THEN yearData.isEstimated ELSE FALSE)

\* C11 witness: a trend over a year with neither `total` nor `isEstimated`
\* and a year that is flagged as estimated.
C11_Witness ==
    /\ Applied("getBogorYearlyTrend")
    /\ \E i \in 1..Len(result) :
          DOMAIN Get(original.data.bogor.yearlyData, result[i].year)
              \cap {"total", "isEstimated"} = {}
    /\ \E i \in 1..Len(result) : result[i].isEstimated

BySubdistrict == Applied("getCirebonBySubdistrict") \/ Applied("getBogorBySubdistrict")

\* C12: the records of getCirebonBySubdistrict and of getBogorBySubdistrict
\* are in non-increasing order of total: each record's total is at least
\* the total of the record after it.
C12_DescendingByTotal ==
    BySubdistrict =>
        \A i \in 1..Len(result) : \A j \in 1..Len(result) :
            j = i + 1 => result[i].total >= result[j].total

\* C12 witness: two subdistricts listed in ascending order of their totals,
\* returned in the opposite order.
C12_Witness ==
    /\ Applied("getBogorBySubdistrict")
    /\ Len(result) = 2
    /\ IdsOf(result) # IdsOf(original.data.bogor.subdistricts)
    /\ result[1].total > result[2].total

SameRegionalPayload ==
    /\ original.data.bogor.subdistricts = original.data.cirebon.subdistricts
    /\ original.data.bogor.yearlyData = original.data.cirebon.yearlyData

\* C13: getCirebonBySubdistrict returns one record for every subdistrict of
\* the catalog, those with total 0 included; getBogorBySubdistrict returns
\* no record with total 0; and over the same catalog and yearly data the
\* Bogor result is the Cirebon result without its records of total 0.
C13_BogorIsCirebonWithoutZeros ==
    /\ Applied("getCirebonBySubdistrict") =>
          /\ Len(result) = Len(original.data.cirebon.subdistricts)
          /\ Range(IdsOf(result)) = Range(IdsOf(original.data.cirebon.subdistricts))
    /\ Applied("getBogorBySubdistrict") =>
          /\ \A i \in 1..Len(result) : result[i].total # 0
          /\ SameRegionalPayload =>
                LET cirebon == getCirebonBySubdistrict(original)
                IN  result = SeqFilter(cirebon, {r \in Range(cirebon) : r.total # 0})

\* C13 witness: a catalog of two subdistricts, one of them without any
\* count, of which the Bogor result keeps one.
C13_Witness ==
    /\ Applied("getBogorBySubdistrict")
    /\ SameRegionalPayload
    /\ Len(getCirebonBySubdistrict(original)) = 2
    /\ \E r \in Range(getCirebonBySubdistrict(original)) : r.total = 0
    /\ Len(result) = 1

\* The counts stored under id in the first n years of yearlyData, added up;
\* a year without the id adds nothing.
RECURSIVE CountUpTo(_, _, _)
CountUpTo(yearlyData, id, n) ==
    IF n = 0 THEN 0
    ELSE CountUpTo(yearlyData, id, n - 1)
         + (IF id \in DOMAIN yearlyData[n].value THEN yearlyData[n].value[id] ELSE 0)

\* C14: the total of every record of the per-subdistrict aggregations is
\* the sum over all years of yearlyData of the count stored under the
\* subdistrict's id, a year without the id adding 0.
C14_TotalIsSumOverYears ==
    /\ Applied("getCirebonBySubdistrict") =>
          \A i \in 1..Len(result) :
              LET yearlyData == original.data.cirebon.yearlyData
              IN  result[i].total = CountUpTo(yearlyData, result[i].id, Len(yearlyData))
    /\ Applied("getBogorBySubdistrict") =>
          \A i \in 1..Len(result) :
              LET yearlyData == original.data.bogor.yearlyData
              IN  result[i].total = CountUpTo(yearlyData, result[i].id, Len(yearlyData))

\* C14 witness: two years, a subdistrict counted in both of them and a
\* subdistrict that one of the years does not list.
C14_Witness ==
    /\ Applied("getCirebonBySubdistrict")
    /\ LET yearlyData == original.data.cirebon.yearlyData
       IN  /\ Len(yearlyData) = 2
           /\ \E i \in 1..Len(result) :
                 /\ \A n \in 1..2 : result[i].id \in DOMAIN yearlyData[n].value
                 /\ \A n \in 1..2 : result[i].total > yearlyData[n].value[result[i].id]
           /\ \E i \in 1..Len(result) :
                 /\ \E n \in 1..2 : result[i].id \notin DOMAIN yearlyData[n].value
                 /\ result[i].total > 0

\* C15: getJatimDiseaseComparison returns one record per year, holding the
\* year, the year's isPartialYear flag (FALSE when the year has none) and,
\* for each of diare-akut, dengue, pneumonia and tifoid, the disease's total
\* in that year, 0 when the year does not record the disease.
C15_JatimRecordPerYear ==
    Applied("getJatimDiseaseComparison") =>
        LET yearlyData == original.data.jatim.yearlyData
        IN  /\ Len(result) = Len(yearlyData)
            /\ \A n \in 1..Len(yearlyData) :
                  \E i \in 1..Len(result) :
                      LET r == result[i]
                          yearData == yearlyData[n].value
                      IN  /\ r.year = yearlyData[n].key
                          /\ r.isPartialYear = (IF "isPartialYear" \in DOMAIN yearData
                                                  THEN yearData.isPartialYear ELSE FALSE)
                          /\ \A d \in {"diare-akut", "dengue", "pneumonia", "tifoid"} :
                                /\ d \in DOMAIN r
                                /\ r[d] = (IF d \in DOMAIN yearData.diseases
                                             THEN yearData.diseases[d].total ELSE 0)

\* C15 witness: a partial year that records pneumonia but no dengue, next
\* to a year without a flag that records dengue.
C15_Witness ==
    /\ Applied("getJatimDiseaseComparison")
    /\ \E i \in 1..Len(result) :
          /\ result[i].isPartialYear
          /\ result[i]["pneumonia"] > 0
          /\ result[i]["dengue"] = 0
    /\ \E i \in 1..Len(result) :
          /\ "isPartialYear" \notin DOMAIN Get(original.data.jatim.yearlyData, result[i].year)
          /\ result[i]["dengue"] > 0

\* The diphtheria total the Jakarta data records for a year, 0 when the
\* year has no entry or its summary has no diphtheria.
RecordedDifteri(year) ==
    LET jakarta == original.data.jakarta
        recorded == {i \in 1..Len(jakarta) :
                        /\ jakarta[i].key = year
                        /\ "difteri" \in DOMAIN jakarta[i].value.summary}
    IN  IF recorded = {} THEN 0
        ELSE jakarta[CHOOSE i \in recorded : TRUE].value.summary["difteri"].total

Unsigned(str) == IF str # <<>> /\ str[1] = "-" THEN Tail(str) ELSE str

\* str is a decimal numeral with exactly one fractional digit: an optional
\* "-", an integer part without superfluous zeros, ".", one digit.
IsOneDecimal(str) ==
    LET body == Unsigned(str)
        n == Len(body)
    IN  /\ n >= 3
        /\ body[n - 1] = "."
        /\ \A i \in (1..n) \ {n - 1} : body[i] \in Digits
        /\ n > 3 => body[1] # "0"

\* The value of such a numeral, in tenths.
Tenths(str) ==
    LET body == Unsigned(str)
        n == Len(body)
        mag == 10 * DigitsValue(SubSeq(body, 1, n - 2)) + DigitOf(body[n])
    IN  IF str[1] = "-" THEN -mag ELSE mag

Abs(x) == IF x < 0 THEN -x ELSE x

\* C16: getSummaryStats reports difteriChange = 2023 total - 2022 total, and
\* difteriChangePercent as a string: "0" when the 2022 total is 0, and
\* otherwise the one-decimal numeral nearest to difteriChange / 2022 total
\* x 100 (at most half a tenth away).  Totals 0 and 5 give 5 and "0"; totals
\* 15 and 22 give 7 and "46.7".
C16_DifteriChangeAndPercent ==
    Applied("getSummaryStats") =>
        LET prior == RecordedDifteri(Year2022)
            current == RecordedDifteri(Year2023)
            percent == result.difteriChangePercent
        IN  /\ result.difteriChange = current - prior
            /\ IF prior = 0 THEN percent = <<"0">>
               ELSE /\ IsOneDecimal(percent)
                    /\ 2 * Abs(Tenths(percent) * prior - 1000 * (current - prior)) <= prior
                    /\ (percent[1] = "-") = (Tenths(percent) < 0)
            /\ (prior = 0 /\ current = 5) =>
                  result.difteriChange = 5 /\ percent = <<"0">>
            /\ (prior = 15 /\ current = 22) =>
                  result.difteriChange = 7 /\ percent = <<"4", "6", ".", "7">>

\* C16 witness: a rise from 15 to 22 reported as 7 and "46.7".
C16_Witness ==
    /\ Applied("getSummaryStats")
    /\ RecordedDifteri(Year2022) = 15
    /\ RecordedDifteri(Year2023) = 22
    /\ result.difteriChange = 7
    /\ result.difteriChangePercent = <<"4", "6", ".", "7">>

\* The Jakarta data has no entry for the year, or the entry's summary has no
\* diphtheria.
DifteriMissing(year) ==
    \A i \in 1..Len(original.data.jakarta) :
        original.data.jakarta[i].key = year =>
            "difteri" \notin DOMAIN original.data.jakarta[i].value.summary

\* C17: getSummaryStats returns its statistics whatever Jakarta data is
\* missing: a year without an entry, or without diphtheria in its summary,
\* is counted as 0, and the change and the percent follow from the counts
\* reported ("0" when 2022 counts as 0, a fall of 100 percent when only
\* 2023 is missing).
C17_MissingJakartaDataCountsZero ==
    Applied("getSummaryStats") =>
        /\ {"jakartaDifteri2023", "jakartaDifteri2022", "difteriChange",
            "difteriChangePercent"} \subseteq DOMAIN result
        /\ DifteriMissing(Year2023) => result.jakartaDifteri2023 = 0
        /\ DifteriMissing(Year2022) => result.jakartaDifteri2022 = 0
        /\ (DifteriMissing(Year2023) \/ DifteriMissing(Year2022)) =>
              /\ result.difteriChange = result.jakartaDifteri2023 - result.jakartaDifteri2022
              /\ result.jakartaDifteri2022 = 0 => result.difteriChangePercent = <<"0">>
              /\ result.jakartaDifteri2022 > 0 =>
                    result.difteriChangePercent = <<"-", "1", "0", "0", ".", "0">>

\* C17 witness: no 2023 entry at all next to a 2022 entry with diphtheria
\* cases.
C17_Witness ==
    /\ Applied("getSummaryStats")
    /\ \A i \in 1..Len(original.data.jakarta) : original.data.jakarta[i].key # Year2023
    /\ ~DifteriMissing(Year2022)
    /\ result.jakartaDifteri2023 = 0
    /\ result.jakartaDifteri2022 > 0
    /\ result.difteriChangePercent = <<"-", "1", "0", "0", ".", "0">>

\* C28: getJakartaDistrictData returns the empty sequence for a year that
\* has no entry in the Jakarta data.
C28_AbsentYearGivesNoRecords ==
    (Applied("getJakartaDistrictData") /\ ~HasKey(original.data.jakarta, lastCall.year)) =>
        result = <<>>

\* C28 witness: a call for a year without an entry, on data that has
\* another year with districts in it.
C28_Witness ==
    /\ Applied("getJakartaDistrictData")
    /\ ~HasKey(original.data.jakarta, lastCall.year)
    /\ \E i \in 1..Len(original.data.jakarta) : original.data.jakarta[i].value.cases # <<>>
    /\ result = <<>>

\* The position of a subdistrict id in a catalog.
CatalogIndex(subdistricts, id) ==
    CHOOSE n \in 1..Len(subdistricts) : subdistricts[n].id = id

\* Records of the result with equal totals are in catalog order.
TiesInCatalogOrder(subdistricts) ==
    \A i \in 1..Len(result) : \A j \in 1..Len(result) :
        (i < j /\ result[i].total = result[j].total) =>
            CatalogIndex(subdistricts, result[i].id) < CatalogIndex(subdistricts, result[j].id)

\* C29: in getCirebonBySubdistrict and getBogorBySubdistrict, subdistricts
\* with equal totals keep the relative order they have in the catalog.
C29_EqualTotalsKeepCatalogOrder ==
    /\ Applied("getCirebonBySubdistrict") =>
          TiesInCatalogOrder(original.data.cirebon.subdistricts)
    /\ Applied("getBogorBySubdistrict") =>
          TiesInCatalogOrder(original.data.bogor.subdistricts)

\* C29 witness: two subdistricts with the same total, not 0, returned in
\* the order of the catalog.
C29_Witness ==
    /\ Applied("getBogorBySubdistrict")
    /\ Len(result) = 2
    /\ result[1].total = result[2].total
    /\ IdsOf(result) = IdsOf(original.data.bogor.subdistricts)

(***************************************************************************)
(* The legacy row aggregations (Header.tsx:487-595).  Their rows come from *)
(* CSV and per-year JSON files, every field a string.                      *)
(*   - A string is the sequence of its characters ("12" is <<"1", "2">>),  *)
(*     so that parseInt, toLowerCase, includes, replace and the sort       *)
(*     orders are computed on the text.                                    *)
(*   - A number is [nan, val]: parseInt yields NaN on text without a       *)
(*     leading integer, and NaN absorbs every sum it enters.               *)
(*   - A Map is the sequence of its [key, value] entries in insertion      *)
(*     order, which is the order Map.prototype.entries() yields.           *)
(***************************************************************************)
MaxRows == 2        \* rows of one legacy file

\* The characters of the model's strings, in code-unit order.
Alphabet ==
    <<" ", "-", ".", "0", "1", "2", "3", "4", "5", "6", "7", "8", "9", "A",
      "B", "C", "D", "E", "F", "G", "H", "I", "J", "K", "L", "M", "N", "O",
      "P", "Q", "R", "S", "T", "U", "V", "W", "X", "Y", "Z", "a", "b", "c",
      "d", "e", "f", "g", "h", "i", "j", "k", "l", "m", "n", "o", "p", "q",
      "r", "s", "t", "u", "v", "w", "x", "y", "z">>

CodeUnit(ch) == CHOOSE i \in 1..Len(Alphabet) : Alphabet[i] = ch

\* String.prototype.toLowerCase: "A".."Z" to "a".."z".
toLowerCase(str) ==
    [i \in 1..Len(str) |->
        IF CodeUnit(str[i]) \in CodeUnit("A")..CodeUnit("Z")
          THEN Alphabet[CodeUnit(str[i]) + (CodeUnit("a") - CodeUnit("A"))]
          ELSE str[i]]

\* The offsets at which sub occurs in str.
Occurrences(str, sub) ==
    {k \in 0..(Len(str) - Len(sub)) : SubSeq(str, k + 1, k + Len(sub)) = sub}

\* String.prototype.includes.
includes(str, sub) == Occurrences(str, sub) # {}

\* str.replace(pattern, ''): the first occurrence of pattern removed.
replace(str, pattern) ==
    IF ~includes(str, pattern) THEN str
    ELSE LET k == CHOOSE x \in Occurrences(str, pattern) :
                      \A y \in Occurrences(str, pattern) : x <= y
         IN  SubSeq(str, 1, k) \o SubSeq(str, k + Len(pattern) + 1, Len(str))

\* a < b in code-unit order, the order of Array.prototype.sort() without a
\* comparator (Header.tsx:577).
CodeUnitLess(a, b) ==
    \/ \E k \in 1..Len(a) :
          /\ k <= Len(b)
          /\ \A i \in 1..(k - 1) : a[i] = b[i]
          /\ CodeUnit(a[k]) < CodeUnit(b[k])
    \/ /\ Len(a) < Len(b)
       /\ \A i \in 1..Len(a) : a[i] = b[i]

\* a.localeCompare(b) < 0 (Header.tsx:570).  The periods of the model are
\* strings of digits of one length, which every collation orders digit by
\* digit.
LocaleLess(a, b) == CodeUnitLess(a, b)

NaN == [nan |-> TRUE, val |-> 0]
Num(n) == [nan |-> FALSE, val |-> n]

\* a + b and a - b on numbers.
Plus(a, b) == IF a.nan \/ b.nan THEN NaN ELSE Num(a.val + b.val)
Minus(a, b) == IF a.nan \/ b.nan THEN NaN ELSE Num(a.val - b.val)

RECURSIVE TrimStart(_)
TrimStart(str) ==
    IF str # <<>> /\ Head(str) = " " THEN TrimStart(Tail(str)) ELSE str

RECURSIVE LeadingDigits(_)
LeadingDigits(str) ==
    IF str # <<>> /\ Head(str) \in Digits
      THEN <<Head(str)>> \o LeadingDigits(Tail(str))
      ELSE <<>>

\* parseInt(str, 10): leading white space skipped, an optional sign, then
\* the longest run of digits; NaN when there is no digit to read.
parseInt10(str) ==
    LET trimmed == TrimStart(str)
        signed == trimmed # <<>> /\ trimmed[1] \in {"-", "+"}
        digits == LeadingDigits(IF signed THEN Tail(trimmed) ELSE trimmed)
    IN  IF digits = <<>> THEN NaN
        ELSE IF signed /\ trimmed[1] = "-" THEN Num(-DigitsValue(digits))
        ELSE Num(DigitsValue(digits))

\* `item.a || item.b || fallback` on optional string fields: the first of
\* the fields that is present and not empty.
RECURSIVE FirstTruthy(_, _, _)
FirstTruthy(item, fields, fallback) ==
    IF fields = <<>> THEN fallback
    ELSE IF Has(item, Head(fields)) /\ item[Head(fields)] # <<>> THEN item[Head(fields)]
    ELSE FirstTruthy(item, Tail(fields), fallback)

\* map.set(key, value): the value replaced in place for a key the map has,
\* a new last entry otherwise.
MapSet(map, key, value) ==
    IF HasKey(map, key)
      THEN [i \in 1..Len(map) |->
               IF map[i].key = key THEN [key |-> key, value |-> value] ELSE map[i]]
      ELSE Append(map, [key |-> key, value |-> value])

\* The string literals of the legacy functions.
Unknown == <<"U", "n", "k", "n", "o", "w", "n">>
KotaAdm == <<"K", "O", "T", "A", " ", "A", "D", "M", ".", " ">>
KabAdm == <<"K", "A", "B", ".", " ", "A", "D", "M", ".", " ">>
Difteri == <<"d", "i", "f", "t", "e", "r", "i">>
Laki == <<"l", "a", "k", "i">>

\* The region map of transformJakartaDataByRegion after the first n rows
\* (Header.tsx:488-508).  A row is counted when its jenis_kasus contains
\* the disease type, letter case ignored, and every row is counted when the
\* disease type is 'difteri'; the key is the region as the row spells it.
RECURSIVE RegionMapAfter(_, _, _)
RegionMapAfter(data, diseaseType, n) ==
    IF n = 0 THEN <<>>
    ELSE LET regionMap == RegionMapAfter(data, diseaseType, n - 1)
             item == data[n]
             region == FirstTruthy(item, <<"wilayah", "kota_atau_kabupaten">>, Unknown)
             kasusMatch == /\ Has(item, "jenis_kasus")
                           /\ includes(toLowerCase(item.jenis_kasus),
                                       toLowerCase(diseaseType))
             jumlah == parseInt10(FirstTruthy(item, <<"jumlah", "jumlah_difteri">>, <<"0">>))
             current == IF HasKey(regionMap, region) THEN Get(regionMap, region)
                        ELSE [laki |-> Num(0), perempuan |-> Num(0)]
         IN  IF ~(kasusMatch \/ diseaseType = Difteri) THEN regionMap
             ELSE IF includes(toLowerCase(item.jenis_kelamin), Laki)
               THEN MapSet(regionMap, region, [current EXCEPT !.laki = Plus(@, jumlah)])
               ELSE MapSet(regionMap, region, [current EXCEPT !.perempuan = Plus(@, jumlah)])

\* transformJakartaDataByRegion, Header.tsx:487-516: the entries of the map
\* in insertion order, the administrative prefixes taken off the names.
transformJakartaDataByRegion(data, diseaseType) ==
    LET regionMap == RegionMapAfter(data, diseaseType, Len(data))
    IN  SeqMap(regionMap,
               [e \in Range(regionMap) |->
                   [name |-> replace(replace(e.key, KotaAdm), KabAdm),
                    laki |-> e.value.laki,
                    perempuan |-> e.value.perempuan,
                    total |-> Plus(e.value.laki, e.value.perempuan)]])

\* The running sums of a key-to-sum Map after the first n rows
\* (Header.tsx:519-529, 537-547, 555-567): keyOf and amountOf give a row's
\* key and its parsed amount.
RECURSIVE SumByKey(_, _, _, _)
SumByKey(data, keyOf, amountOf, n) ==
    IF n = 0 THEN <<>>
    ELSE LET map == SumByKey(data, keyOf, amountOf, n - 1)
             key == keyOf[data[n]]
             sum == IF HasKey(map, key) THEN Get(map, key) ELSE Num(0)
         IN  MapSet(map, key, Plus(sum, amountOf[data[n]]))

\* `(a, b) => parseInt(a.year) - parseInt(b.year)` (Header.tsx:533, 551) on
\* year strings; the years of the model all parse.
LegacyYearLess(a, b) ==
    LET x == parseInt10(a.year)
        y == parseInt10(b.year)
    IN  ~x.nan /\ ~y.nan /\ x.val < y.val

\* transformCirebonByYear, Header.tsx:518-534.
transformCirebonByYear(data) ==
    LET yearMap == SumByKey(data, [item \in Range(data) |-> item.tahun],
                            [item \in Range(data) |-> parseInt10(item.jumlah_kasus)],
                            Len(data))
        rows == SeqMap(yearMap, [e \in Range(yearMap) |-> [year |-> e.key, total |-> e.value]])
    IN  StableSort(rows, [p \in Pairs(rows) |-> LegacyYearLess(p[1], p[2])])

\* transformBogorByYear, Header.tsx:536-552.
transformBogorByYear(data) ==
    LET yearMap == SumByKey(data, [item \in Range(data) |-> item.tahun],
                            [item \in Range(data) |-> parseInt10(item.jumlah_wabah_lainya)],
                            Len(data))
        rows == SeqMap(yearMap, [e \in Range(yearMap) |-> [year |-> e.key, total |-> e.value]])
    IN  StableSort(rows, [p \in Pairs(rows) |-> LegacyYearLess(p[1], p[2])])

\* transformJawaTimurByMonth, Header.tsx:554-572: the rows whose penyakit
\* contains the disease name, letter case ignored, summed by periode_update.
transformJawaTimurByMonth(data, diseaseName) ==
    LET matching == SeqFilter(data, {item \in Range(data) :
                                        includes(toLowerCase(item.penyakit),
                                                 toLowerCase(diseaseName))})
        monthMap == SumByKey(matching, [item \in Range(matching) |-> item.periode_update],
                             [item \in Range(matching) |-> parseInt10(item.jumlah)],
                             Len(matching))
        rows == SeqMap(monthMap, [e \in Range(monthMap) |-> [month |-> e.key, total |-> e.value]])
    IN  StableSort(rows, [p \in Pairs(rows) |-> LocaleLess(p[1].month, p[2].month)])

\* The values of a Set in insertion order: each value once, at its first
\* occurrence.
RECURSIVE SetValues(_)
SetValues(s) ==
    IF s = <<>> THEN <<>>
    ELSE LET before == SetValues(SubSeq(s, 1, Len(s) - 1))
         IN  IF s[Len(s)] \in Range(before) THEN before ELSE Append(before, s[Len(s)])

\* getUniqueDiseasesJatim, Header.tsx:574-578.
getUniqueDiseasesJatim(data) ==
    LET diseases == SetValues(SeqMap(data, [item \in Range(data) |-> item.penyakit]))
    IN  StableSort(diseases, [p \in Pairs(diseases) |-> CodeUnitLess(p[1], p[2])])

RECURSIVE SumNumbers(_)
SumNumbers(s) == IF s = <<>> THEN Num(0) ELSE Plus(SumNumbers(SubSeq(s, 1, Len(s) - 1)), s[Len(s)])

\* (LegacyPercentGuarded: the percentage with the zero guard of
\* getSummaryStats, `prior > 0 ? ... : '0'`.)
LegacyPercentGuarded(change, prior) ==
    IF change.nan \/ prior.nan THEN <<"N", "a", "N">>
    ELSE IF prior.val > 0 THEN PercentToFixed1(change.val, prior.val)
    ELSE <<"0">>

\* ((change / prior) * 100).toFixed(1) (Header.tsx:593) without a guard on
\* prior: NaN prints as "NaN" and a quotient by zero as "NaN" (0 / 0),
\* "Infinity" or "-Infinity".
LegacyPercent(change, prior) ==
    IF change.nan \/ prior.nan THEN <<"N", "a", "N">>
    ELSE IF prior.val = 0
      THEN IF change.val = 0 THEN <<"N", "a", "N">>
           ELSE IF change.val > 0 THEN <<"I", "n", "f", "i", "n", "i", "t", "y">>
           ELSE <<"-", "I", "n", "f", "i", "n", "i", "t", "y">>
    ELSE IF prior.val < 0 THEN PercentToFixed1(-change.val, -prior.val)
    ELSE PercentToFixed1(change.val, prior.val)

\* calculateSummary, Header.tsx:580-595.
calculateSummary(jakartaData2022, jakartaData2023) ==
    LET totalDifteri2022 ==
            SumNumbers(SeqMap(jakartaData2022,
                [item \in Range(jakartaData2022) |->
                    parseInt10(FirstTruthy(item, <<"jumlah_difteri", "jumlah">>, <<"0">>))]))
        totalDifteri2023 ==
            SumNumbers(SeqMap(jakartaData2023,
                [item \in Range(jakartaData2023) |->
                    parseInt10(FirstTruthy(item, <<"jumlah">>, <<"0">>))]))
        change == Minus(totalDifteri2023, totalDifteri2022)
    IN  [totalDifteri2022 |-> totalDifteri2022,
         totalDifteri2023 |-> totalDifteri2023,
         change |-> change,
         changePercent |-> LegacyPercent(change, totalDifteri2022)]

(***************************************************************************)
(* The rows the legacy aggregations are applied to.  A row carries the     *)
(* fields its aggregation reads; the other columns of the files are left   *)
(* out.  An optional field that is absent is not in the row's DOMAIN.      *)
(***************************************************************************)
\* A numeric column: empty, two numerals, and a placeholder that is no
\* numeral.
NumericPool == {<<>>, <<"3">>, <<"1", "2">>, <<"-">>}

JakartaBarat == <<"J", "A", "K", "A", "R", "T", "A", " ", "B", "A", "R", "A", "T">>
KepSeribu == <<"K", "E", "P", ".", " ", "S", "E", "R", "I", "B", "U">>
LakiLaki == <<"L", "a", "k", "i", "-", "l", "a", "k", "i">>
Perempuan == <<"P", "e", "r", "e", "m", "p", "u", "a", "n">>

\* Rows of the two Jakarta files: the region under `wilayah` or under
\* `kota_atau_kabupaten`, with and without an administrative prefix, or
\* missing; the count under `jumlah` or `jumlah_difteri`.
JakartaItemPool ==
    {[wilayah |-> KotaAdm \o JakartaBarat, jenis_kelamin |-> LakiLaki,
      jenis_kasus |-> <<"D", "i", "f", "t", "e", "r", "i">>, jumlah |-> <<"3">>],
     [wilayah |-> JakartaBarat, jenis_kelamin |-> Perempuan,
      jenis_kasus |-> <<"S", "u", "s", "p", "e", "k", " ", "D", "I", "F", "T", "E", "R", "I">>, jumlah |-> <<"1", "2">>],
     [kota_atau_kabupaten |-> KabAdm \o KepSeribu, jenis_kelamin |-> toLowerCase(LakiLaki),
      jumlah_difteri |-> <<"2">>],
     [wilayah |-> KotaAdm \o JakartaBarat, jenis_kelamin |-> Perempuan,
      jenis_kasus |-> <<"C", "a", "m", "p", "a", "k">>, jumlah |-> <<>>, jumlah_difteri |-> <<"2">>],
     [wilayah |-> <<>>, jenis_kelamin |-> Perempuan,
      jenis_kasus |-> <<"C", "a", "m", "p", "a", "k">>, jumlah |-> <<"-">>],
     [kota_atau_kabupaten |-> KotaAdm \o JakartaBarat, jenis_kelamin |-> LakiLaki,
      jenis_kasus |-> <<"D", "i", "f", "t", "e", "r", "i">>]}

\* Every list of at most MaxRows rows of pool.
Rows(pool) == UNION {[1..k -> pool] : k \in 0..MaxRows}

LegacyYears == {<<"2", "0", "1", "9">>, <<"2", "0", "2", "0">>}

CirebonItemPool == [tahun : LegacyYears, jumlah_kasus : NumericPool]

BogorItemPool == [tahun : LegacyYears, jumlah_wabah_lainya : NumericPool]

JawaTimurItemPool ==
    [periode_update : {<<"2", "0", "2", "3", "1", "2">>, <<"2", "0", "2", "4", "0", "1">>},
     penyakit : {<<"D", "e", "n", "g", "u", "e">>, <<"D", "I", "A", "R", "E">>},
     jumlah : {<<"3">>, <<>>}]

\* Rows of calculateSummary, which reads the two count columns only.
SummaryItemPool ==
    {[jenis_kelamin |-> LakiLaki, jumlah_difteri |-> <<"2">>],
     [jenis_kelamin |-> LakiLaki, jumlah |-> <<"3">>],
     [jenis_kelamin |-> Perempuan, jumlah |-> <<>>],
     [jenis_kelamin |-> Perempuan, jumlah |-> <<"-">>],
     [jenis_kelamin |-> Perempuan, jumlah_difteri |-> <<"1", "2">>, jumlah |-> <<"3">>],
     [jenis_kelamin |-> Perempuan, jumlah |-> <<"-", "2">>]}

NoRows ==
    [file |-> "rows", jakarta |-> <<>>, jakarta2022 |-> <<>>, jakarta2023 |-> <<>>,
     cirebon |-> <<>>, bogor |-> <<>>, jatim |-> <<>>]

\* The parsed files, one of them at a time ranging over its rows.
LegacyInputs ==
    {[NoRows EXCEPT !.jakarta = rows] : rows \in Rows(JakartaItemPool)}
    \cup {[NoRows EXCEPT !.cirebon = rows] : rows \in Rows(CirebonItemPool)}
    \cup {[NoRows EXCEPT !.bogor = rows] : rows \in Rows(BogorItemPool)}
    \cup {[NoRows EXCEPT !.jatim = rows] : rows \in Rows(JawaTimurItemPool)}
    \cup {[NoRows EXCEPT !.jakarta2022 = r22, !.jakarta2023 = r23] :
             r22 \in Rows(SummaryItemPool), r23 \in Rows(SummaryItemPool)}

\* Disease arguments: the literal the by-region function singles out, the
\* same word in capitals, and another disease.
LegacyDiseaseTypes == {Difteri, <<"D", "I", "F", "T", "E", "R", "I">>, <<"c", "a", "m", "p", "a", "k">>}
LegacyDiseaseNames == {<<"d", "e", "n", "g", "u", "e">>, <<"D", "i", "a", "r", "e">>}

\* One call of a legacy aggregation on the parsed rows.
LegacyApply(call, res) ==
    /\ lastCall' = call
    /\ result' = res
    /\ UNCHANGED <<unifiedData, original, fetchVars, legacyVars, uiVars>>

Call_transformJakartaDataByRegion ==
    \E diseaseType \in LegacyDiseaseTypes :
        LegacyApply([fn |-> "transformJakartaDataByRegion", diseaseType |-> diseaseType],
                    transformJakartaDataByRegion(legacyData.jakarta, diseaseType))

Call_transformCirebonByYear ==
    LegacyApply([fn |-> "transformCirebonByYear"], transformCirebonByYear(legacyData.cirebon))

Call_transformBogorByYear ==
    LegacyApply([fn |-> "transformBogorByYear"], transformBogorByYear(legacyData.bogor))

Call_transformJawaTimurByMonth ==
    \E diseaseName \in LegacyDiseaseNames :
        LegacyApply([fn |-> "transformJawaTimurByMonth", diseaseName |-> diseaseName],
                    transformJawaTimurByMonth(legacyData.jatim, diseaseName))

Call_getUniqueDiseasesJatim ==
    LegacyApply([fn |-> "getUniqueDiseasesJatim"], getUniqueDiseasesJatim(legacyData.jatim))

Call_calculateSummary ==
    LegacyApply([fn |-> "calculateSummary"],
                calculateSummary(legacyData.jakarta2022, legacyData.jakarta2023))

LegacyInit ==
    /\ cachedUnifiedData = Null
    /\ calls = <<>>
    /\ unifiedData = NoDocument
    /\ original = NoDocument
    /\ lastCall = [fn |-> "none"]
    /\ result = <<>>
    /\ legacyData \in LegacyInputs
    /\ legacyCalls = <<>>
    /\ theme = Unmounted("none")
    /\ view = NoView

LegacyNext ==
    \/ Call_transformJakartaDataByRegion
    \/ Call_transformCirebonByYear
    \/ Call_transformBogorByYear
    \/ Call_transformJawaTimurByMonth
    \/ Call_getUniqueDiseasesJatim
    \/ Call_calculateSummary

LegacySpec == LegacyInit /\ [][LegacyNext]_vars

(***************************************************************************)
(* Claims about the legacy aggregations, checked under LegacySpec.         *)
(***************************************************************************)

\* The amount a numeric field stands for when text that is empty or does
\* not parse counts as 0.
AmountOrZero(str) == IF parseInt10(str).nan THEN 0 ELSE parseInt10(str).val

\* The amounts of the first n rows whose tahun is year, added up.
RECURSIVE YearAmountUpTo(_, _, _, _)
YearAmountUpTo(rows, field, year, n) ==
    IF n = 0 THEN 0
    ELSE YearAmountUpTo(rows, field, year, n - 1)
         + (IF rows[n].tahun = year THEN AmountOrZero(rows[n][field]) ELSE 0)

\* C18 (as claimed): in the legacy aggregations a numeric field that is
\* empty or does not parse adds 0 to its running sum: every sum reported is
\* a number (never NaN), and the by-year sums are the sums of the fields
\* that parse.
C18_UnparsedFieldsAddZero ==
    /\ Applied("transformCirebonByYear") =>
          \A i \in 1..Len(result) :
              /\ ~result[i].total.nan
              /\ result[i].total.val =
                    YearAmountUpTo(legacyData.cirebon, "jumlah_kasus", result[i].year,
                                   Len(legacyData.cirebon))
    /\ Applied("transformBogorByYear") =>
          \A i \in 1..Len(result) :
              /\ ~result[i].total.nan
              /\ result[i].total.val =
                    YearAmountUpTo(legacyData.bogor, "jumlah_wabah_lainya", result[i].year,
                                   Len(legacyData.bogor))
    /\ Applied("transformJawaTimurByMonth") =>
          \A i \in 1..Len(result) : ~result[i].total.nan
    /\ Applied("transformJakartaDataByRegion") =>
          \A i \in 1..Len(result) :
              ~result[i].laki.nan /\ ~result[i].perempuan.nan /\ ~result[i].total.nan
    /\ Applied("calculateSummary") =>
          ~result.totalDifteri2022.nan /\ ~result.totalDifteri2023.nan

\* C19 (as claimed): every legacy aggregation and the unique-values helper
\* returns its records in ascending order of their key (region name, year,
\* month, disease name), whatever the order of the rows.
C19_LegacyOutputSortedByKey ==
    /\ Applied("transformJakartaDataByRegion") =>
          \A i \in 1..Len(result) : \A j \in 1..Len(result) :
              i < j => ~CodeUnitLess(result[j].name, result[i].name)
    /\ (Applied("transformCirebonByYear") \/ Applied("transformBogorByYear")) =>
          \A i \in 1..Len(result) : \A j \in 1..Len(result) :
              i < j => parseInt10(result[i].year).val < parseInt10(result[j].year).val
    /\ Applied("transformJawaTimurByMonth") =>
          \A i \in 1..Len(result) : \A j \in 1..Len(result) :
              i < j => CodeUnitLess(result[i].month, result[j].month)
    /\ Applied("getUniqueDiseasesJatim") =>
          \A i \in 1..Len(result) : \A j \in 1..Len(result) :
              i < j => CodeUnitLess(result[i], result[j])

\* C23 (as claimed): transformJakartaDataByRegion groups the rows by the
\* region name without its administrative prefix: no two records of the
\* output carry the same name.
C23_OneRecordPerStrippedRegion ==
    Applied("transformJakartaDataByRegion") =>
        \A i \in 1..Len(result) : \A j \in 1..Len(result) :
            i # j => result[i].name # result[j].name

\* The rows whose field contains the requested name, letter case ignored.
RowsNaming(rows, field, name) ==
    SeqFilter(rows, {item \in Range(rows) :
                        /\ field \in DOMAIN item
                        /\ includes(toLowerCase(item[field]), toLowerCase(name))})

\* C24 (as claimed): only the rows whose jenis_kasus (by region) or penyakit
\* (by month) contains the requested name, letter case ignored, contribute:
\* the result is the aggregation of those rows alone, for every requested
\* name.
C24_OnlyMatchingRowsContribute ==
    /\ Applied("transformJakartaDataByRegion") =>
          result = transformJakartaDataByRegion(
                       RowsNaming(legacyData.jakarta, "jenis_kasus", lastCall.diseaseType),
                       lastCall.diseaseType)
    /\ Applied("transformJawaTimurByMonth") =>
          result = transformJawaTimurByMonth(
                       RowsNaming(legacyData.jatim, "penyakit", lastCall.diseaseName),
                       lastCall.diseaseName)

NonFinite ==
    {<<"N", "a", "N">>, <<"I", "n", "f", "i", "n", "i", "t", "y">>,
     <<"-", "I", "n", "f", "i", "n", "i", "t", "y">>}

\* C30: calculateSummary reports change = 2023 total - 2022 total, and with
\* a 2022 total of 0 its changePercent is the string of a non-finite value,
\* never "0": "NaN" for a change of 0, "Infinity" for a rise and "-Infinity"
\* for a fall.
C30_NoZeroGuard ==
    Applied("calculateSummary") =>
        LET prior == result.totalDifteri2022
            current == result.totalDifteri2023
        IN  /\ (~prior.nan /\ ~current.nan) =>
                  ~result.change.nan /\ result.change.val = current.val - prior.val
            /\ (~prior.nan /\ prior.val = 0) =>
                  /\ result.changePercent \in NonFinite
                  /\ ~current.nan =>
                        /\ result.change.val = 0 => result.changePercent = <<"N", "a", "N">>
                        /\ result.change.val > 0 =>
                              result.changePercent = <<"I", "n", "f", "i", "n", "i", "t", "y">>
                        /\ result.change.val < 0 =>
                              result.changePercent =
                                  <<"-", "I", "n", "f", "i", "n", "i", "t", "y">>

\* C30 witness: 2022 rows that add up to 0 and 2023 rows that add up to 3,
\* reported as a change of 3 and "Infinity".
C30_Witness ==
    /\ Applied("calculateSummary")
    /\ legacyData.jakarta2022 # <<>>
    /\ result.totalDifteri2022 = Num(0)
    /\ result.totalDifteri2023 = Num(3)
    /\ result.change = Num(3)
    /\ result.changePercent = <<"I", "n", "f", "i", "n", "i", "t", "y">>

(***************************************************************************)
(* The legacy fetch functions, Header.tsx:467-485.  Neither has a cache    *)
(* check and neither names cachedUnifiedData: each invocation calls        *)
(* fetch() for its own URL and resolves with what it parsed.               *)
(***************************************************************************)
\* (LegacyMemoizedLikeUnified: the legacy fetches answering from the
\* unified-document cache when it is filled.)
LegacyMemoizedLikeUnified == CacheHit
LegacyMemoized == FALSE

LegacyStarted == 1..Len(legacyCalls)

\* The files the legacy functions are asked for: `jakarta-${year}.json` for
\* the two years of the type, and one CSV file.
JakartaUrls == {"data/jakarta-2022.json", "data/jakarta-2023.json"}
CsvUrls == {"data/cirebon.csv"}

NewLegacyCall(fn, url) ==
    [fn |-> fn, url |-> url, pc |-> "awaitFetch", issued |-> TRUE, body |-> "none",
     value |-> Null,
     cacheFilledAtStart |-> Truthy(cachedUnifiedData),
     repeatsResolved |-> \E l \in LegacyStarted :
                            legacyCalls[l].url = url /\ legacyCalls[l].pc = "resolved"]

\* A legacy function up to its first await: fetch(url) is called.
CallLegacy(fn, url) ==
    /\ Len(calls) + Len(legacyCalls) < MaxCalls
    /\ legacyCalls' = Append(legacyCalls,
          IF LegacyMemoized
            THEN [NewLegacyCall(fn, url) EXCEPT !.pc = "resolved", !.issued = FALSE,
                                                !.value = cachedUnifiedData]
            ELSE NewLegacyCall(fn, url))
    /\ UNCHANGED <<fetchVars, transformVars, legacyData, uiVars>>

\* fetchJakartaData, Header.tsx:467-470.
CallFetchJakartaData == \E url \in JakartaUrls : CallLegacy("fetchJakartaData", url)

\* fetchCSVData, Header.tsx:472-485.
CallFetchCSVData == \E url \in CsvUrls : CallLegacy("fetchCSVData", url)

\* `await fetch(...)` settles (Header.tsx:468, 473): a network failure
\* rejects the call; a response of any status is read, as JSON that may or
\* may not parse, or as text.
LegacyFetchSettles(l) ==
    /\ legacyCalls[l].pc = "awaitFetch"
    /\ \/ legacyCalls' = [legacyCalls EXCEPT ![l].pc = "rejected"]
       \/ \E body \in IF legacyCalls[l].fn = "fetchJakartaData"
                        THEN {"invalid", "json"} ELSE {"text"} :
             legacyCalls' = [legacyCalls EXCEPT ![l].pc = "awaitBody", ![l].body = body]
    /\ UNCHANGED <<fetchVars, transformVars, legacyData, uiVars>>

\* `return response.json()` (Header.tsx:469), or `await response.text()`
\* followed by Papa.parse, whose `complete` resolves with the rows
\* (Header.tsx:474-483).  The value is created by this call.
LegacyBodySettles(l) ==
    /\ legacyCalls[l].pc = "awaitBody"
    /\ legacyCalls' =
          IF legacyCalls[l].body = "invalid"
            THEN [legacyCalls EXCEPT ![l].pc = "rejected"]
            ELSE [legacyCalls EXCEPT ![l].pc = "resolved",
                                     ![l].value = [kind |-> legacyCalls[l].body, ref |-> -l]]
    /\ UNCHANGED <<fetchVars, transformVars, legacyData, uiVars>>

LegacyFetchNext ==
    \/ CallFetchUnifiedData
    \/ \E c \in Started : FetchSettles(c)
    \/ \E c \in Started : JsonSettles(c)
    \/ CallFetchJakartaData
    \/ CallFetchCSVData
    \/ \E l \in LegacyStarted : LegacyFetchSettles(l)
    \/ \E l \in LegacyStarted : LegacyBodySettles(l)

LegacyFetchSpec == FetchInit /\ [][LegacyFetchNext]_vars

(***************************************************************************)
(* Claims about the legacy fetch functions, checked under LegacyFetchSpec. *)
(***************************************************************************)

\* C20: fetchJakartaData and fetchCSVData do not memoize: every invocation
\* issues a request of its own, whatever was fetched before; none resolves
\* with the cached unified document; and the cache holds nothing but what a
\* fetchUnifiedData call stored.
C20_LegacyFetchesDoNotMemoize ==
    /\ \A l \in LegacyStarted :
          /\ legacyCalls[l].issued
          /\ legacyCalls[l].pc = "resolved" =>
                /\ legacyCalls[l].value.ref = -l
                /\ legacyCalls[l].value # cachedUnifiedData
    /\ Truthy(cachedUnifiedData) =>
          \E c \in Started : calls[c].wrote /\ calls[c].value = cachedUnifiedData

\* C20 witness: with the unified document cached, a file is fetched, and
\* after that call resolved the same file is requested again.
C20_Witness ==
    /\ Len(legacyCalls) = 2
    /\ legacyCalls[1].url = legacyCalls[2].url
    /\ legacyCalls[1].cacheFilledAtStart
    /\ legacyCalls[1].issued /\ legacyCalls[1].pc = "resolved"
    /\ legacyCalls[2].repeatsResolved
    /\ legacyCalls[2].issued
    /\ cachedUnifiedData.kind = "document"

(***************************************************************************)
(* The components around the data layer.                                   *)
(*                                                                         *)
(* Theme: Header keeps isDark (Header.tsx:6), the root element carries or  *)
(* lacks the class 'dark', and localStorage keeps the item 'theme'.  App   *)
(* renders Header below itself (App.tsx:18-26, through Layout), so React   *)
(* runs Header's mount effect before App's.                                *)
(***************************************************************************)
MaxMounts == 2      \* page views mounted in one session

StoredThemes == {"none", "light", "dark"}

\* Header.tsx:9-12: isDark takes what the root element carries.
HeaderMountEffect ==
    /\ ~theme.headerEffectRan
    /\ theme' = [theme EXCEPT !.isDark = theme.classDark, !.headerEffectRan = TRUE]
    /\ UNCHANGED <<fetchVars, transformVars, legacyVars, view>>

\* App.tsx:9-15: a stored preference 'dark' puts the class on the root.
AppMountEffect ==
    /\ theme.headerEffectRan
    /\ ~theme.appEffectRan
    /\ theme' = [theme EXCEPT !.classDark = @ \/ theme.stored = "dark",
                              !.appEffectRan = TRUE]
    /\ UNCHANGED <<fetchVars, transformVars, legacyVars, view>>

\* Header.tsx:14-19, a click on the theme button.  lastToggle records
\* whether the click changed the class the page is drawn with.
toggleTheme ==
    /\ theme.headerEffectRan /\ theme.appEffectRan
    /\ LET newIsDark == ~theme.isDark
       IN  theme' = [theme EXCEPT
                        !.isDark = newIsDark,
                        !.classDark = newIsDark,
                        !.stored = IF newIsDark THEN "dark" ELSE "light",
                        !.lastToggle = IF newIsDark # theme.classDark
                                         THEN "flipped" ELSE "same"]
    /\ UNCHANGED <<fetchVars, transformVars, legacyVars, view>>

(***************************************************************************)
(* Page views: Overview (Overview.tsx:19-46), Jakarta (Jakarta.tsx:13-40)  *)
(* and Regional (Jakarta.tsx:277-304) share one loading pattern.           *)
(***************************************************************************)
Pages == {"Overview", "Jakarta", "Regional"}

\* A route is shown: its view mounts with data = null and loading = true,
\* and its mount effect runs loadData up to `await fetchUnifiedData()`.
PageMount(page) ==
    /\ page # view.page
    /\ Len(calls) < MaxMounts
    /\ StartFetchUnifiedData
    /\ view' = [page |-> page, loading |-> TRUE, data |-> Null,
                call |-> Len(calls) + 1, pc |-> "awaitFetchUnifiedData",
                logged |-> FALSE]
    /\ UNCHANGED <<transformVars, legacyVars, theme>>

\* loadData after its await: setData on a value, console.error on a
\* rejection, and setLoading(false) in either case.
LoadDataResumes ==
    /\ view.pc = "awaitFetchUnifiedData"
    /\ Settled(view.call)
    /\ view' = IF calls[view.call].pc = "resolved"
                 THEN [view EXCEPT !.data = calls[view.call].value,
                                   !.loading = FALSE, !.pc = "done"]
                 ELSE [view EXCEPT !.logged = TRUE,
                                   !.loading = FALSE, !.pc = "done"]
    /\ UNCHANGED <<fetchVars, transformVars, legacyVars, theme>>

\* `if (loading || !data)` returns the spinner; otherwise the transformers
\* are called on data and the charts are rendered.
ShowsLoading == view.loading \/ ~Truthy(view.data)
ShowsContent == view.page # "none" /\ ~ShowsLoading

UiInit ==
    /\ cachedUnifiedData = Null
    /\ calls = <<>>
    /\ unifiedData = NoDocument
    /\ original = NoDocument
    /\ lastCall = [fn |-> "none"]
    /\ result = <<>>
    /\ legacyData = NoLegacyData
    /\ legacyCalls = <<>>
    /\ theme \in {Unmounted(stored) : stored \in StoredThemes}
    /\ view = NoView

UiNext ==
    \/ HeaderMountEffect
    \/ AppMountEffect
    \/ toggleTheme
    \/ \E page \in Pages : PageMount(page)
    \/ \E c \in Started : FetchSettles(c)
    \/ \E c \in Started : JsonSettles(c)
    \/ LoadDataResumes

UiSpec == UiInit /\ [][UiNext]_vars

(***************************************************************************)
(* Claims about the components, checked under UiSpec.                      *)
(***************************************************************************)
\* C25 (as claimed): a page view renders its content and calls the
\* transformers only once its fetchUnifiedData call has resolved with a
\* document; as long as the call is pending, and ever after it has been
\* rejected, the view shows the loading indicator and its data is null.
C25_ContentOnlyAfterDocument ==
    view.page # "none" =>
        /\ ShowsContent =>
              /\ calls[view.call].pc = "resolved"
              /\ calls[view.call].value.kind = "document"
              /\ view.data.kind = "document"
        /\ (Pending(view.call) \/ calls[view.call].pc = "rejected") =>
              (ShowsLoading /\ view.data = Null)

\* C27 (as claimed): once both mount effects have run, and after any
\* toggles, isDark, the root's 'dark' class and a stored preference 'dark'
\* agree, and no toggle has left the class as it was.
C27_ThemeFactsAgree ==
    (theme.headerEffectRan /\ theme.appEffectRan) =>
        /\ theme.isDark = theme.classDark
        /\ theme.classDark = (theme.stored = "dark")
        /\ theme.lastToggle # "same"

====
